---- MODULE Spec2Model ----
(***************************************************************************)
(* Model of obs-history/obs_processor/main.py (mdde-toolbox): the          *)
(* observation counter, the tensor flattener (_traverse_dimension,         *)
(* write_agent_obs_to_csv) and the export orchestrator                     *)
(* (export_observation_csv, router, __main__).                             *)
(*                                                                         *)
(* Two specifications share the variables:                                 *)
(*   SpecFlatten  applies _traverse_dimension / pd.concat to tensors whose *)
(*                shapes are drawn from a bounded set;                     *)
(*   Spec         runs the program (command line or a direct call of       *)
(*                export_observation_csv) over bounded stores.             *)
(***************************************************************************)
EXTENDS Integers, Sequences, FiniteSets, TLC

VARIABLES
    \* ---- flattener -------------------------------------------------------
    fpc,        \* position in write_agent_obs_to_csv: input/flattened/concatenated/failed
    obs,        \* the tensor handed to write_agent_obs_to_csv
    slices,     \* result of _traverse_dimension('', obs)
    df,         \* result of pd.concat(slices, axis=1)
    \* ---- program ---------------------------------------------------------
    pc,         \* position of the program
    config,     \* parsed arguments
    store,      \* the observations table
    files,      \* destination directory: file name -> content
    conns,      \* connection opened by each operation
    stdout,     \* what print() has written
    error,      \* the exception that ended the run, or "none"
    sample,     \* the (episode, step) row fetched by export_observation_csv
    agents,     \* agents of the sample still to be exported
    written,    \* agents whose file was written during this call, in order
    calls       \* how many times the export has been started

fvars == <<fpc, obs, slices, df>>
pvars == <<pc, config, store, files, conns, stdout, error, sample, agents, written, calls>>
vars == <<fpc, obs, slices, df, pc, config, store, files, conns, stdout, error, sample, agents, written, calls>>

----------------------------------------------------------------------------
(* Bounds of the explored inputs *)

MaxRank == 4
MaxDim == 11
MaxElems == 24

----------------------------------------------------------------------------
(* Generic helpers *)

RECURSIVE Prod(_)
Prod(s) == IF s = <<>> THEN 1 ELSE Head(s) * Prod(Tail(s))

RECURSIVE Flat(_)
Flat(ss) == IF ss = <<>> THEN <<>> ELSE Head(ss) \o Flat(Tail(ss))

Max2(a, b) == IF a >= b THEN a ELSE b

Min2(a, b) == IF a <= b THEN a ELSE b

----------------------------------------------------------------------------
(* str.format of integers and strings: a string is a sequence of characters *)

Digits == <<"0", "1", "2", "3", "4", "5", "6", "7", "8", "9">>

RECURSIVE FormatInt(_)
FormatInt(n) ==
    IF n < 10 THEN <<Digits[n + 1]>>
    ELSE FormatInt(n \div 10) \o <<Digits[(n % 10) + 1]>>

----------------------------------------------------------------------------
(* numpy arrays: a shape and a row-major buffer *)

Rank(t) == Len(t.shape)

\* obs_slice[idx]: fix the leading axis (idx is 0-based)
SubTensor(t, idx) ==
    LET stride == Prod(Tail(t.shape))
    IN  [shape |-> Tail(t.shape),
         buf   |-> SubSeq(t.buf, idx * stride + 1, (idx + 1) * stride)]

\* pd.DataFrame(obs_slice) of an array of rank <= 2: RangeIndex rows and columns
DataFrameWrongAxis(t) ==
    LET nrows == IF Rank(t) = 2 THEN t.shape[2] ELSE 1
        ncols == t.shape[1]
    IN  [columns |-> [c \in 1..ncols |-> c - 1],
         index   |-> [r \in 1..nrows |-> r - 1],
         data    |-> [r \in 1..nrows |-> [c \in 1..ncols |-> t.buf[(c - 1) * nrows + r]]]]

DataFrame(t) ==
    LET nrows == t.shape[1]
        ncols == IF Rank(t) = 2 THEN t.shape[2] ELSE 1
    IN  [columns |-> [c \in 1..ncols |-> c - 1],
         index   |-> [r \in 1..nrows |-> r - 1],
         data    |-> [r \in 1..nrows |-> [c \in 1..ncols |-> t.buf[(r - 1) * ncols + c]]]]

----------------------------------------------------------------------------
(* _traverse_dimension *)

\* parent_prefix = "{}_".format(parent_idx) if parent_idx else ''
ParentPrefix(parent_idx) ==
    IF parent_idx # <<>> THEN parent_idx \o <<"_">> ELSE <<>>

\* "{}{}".format(parent_prefix, idx), the parent_idx of the recursive call
ChildIdxNoParent(parent_prefix, idx) == FormatInt(idx)

ChildIdx(parent_prefix, idx) == parent_prefix \o FormatInt(idx)

\* df.columns = ["{}{}".format(parent_prefix, c) for c in range(0, len(df.columns))]
ColumnNamesOneBased(parent_prefix, frame) ==
    [c \in 1..Len(frame.columns) |-> parent_prefix \o FormatInt(c)]

ColumnNames(parent_prefix, frame) ==
    [c \in 1..Len(frame.columns) |-> parent_prefix \o FormatInt(c - 1)]

RECURSIVE traverse_dimension(_, _)
traverse_dimension(parent_idx, obs_slice) ==
    LET parent_prefix == ParentPrefix(parent_idx)
    IN  IF Rank(obs_slice) > 2
        THEN Flat([i \in 1..obs_slice.shape[1] |->
                     traverse_dimension(ChildIdx(parent_prefix, i - 1),
                                        SubTensor(obs_slice, i - 1))])
        ELSE LET frame == DataFrame(obs_slice)
             IN  <<[frame EXCEPT !.columns = ColumnNames(parent_prefix, frame)]>>

----------------------------------------------------------------------------
(* pd.concat(slices, ignore_index=False, axis=1, sort=False) *)

NaN == "NaN"

RECURSIVE MaxRows(_)
MaxRows(ss) == IF ss = <<>> THEN 0 ELSE Max2(Len(Head(ss).index), MaxRows(Tail(ss)))

\* outer join on the row index; every frame here carries a RangeIndex, so the
\* union of the indexes is the longest one and shorter frames are padded
Concat(ss) ==
    LET nrows == MaxRows(ss)
        RowOf(s, r) == IF r <= Len(s.index) THEN s.data[r]
                       ELSE [c \in 1..Len(s.columns) |-> NaN]
    IN  [columns |-> Flat([k \in 1..Len(ss) |-> ss[k].columns]),
         index   |-> [r \in 1..nrows |-> r - 1],
         data    |-> [r \in 1..nrows |-> Flat([k \in 1..Len(ss) |-> RowOf(ss[k], r)])]]

\* df.to_csv(path, decimal='.', sep=','): header line, then index and values
ToCsv(frame) ==
    <<(<<"">> \o frame.columns)>> \o
    [r \in 1..Len(frame.index) |-> <<frame.index[r]>> \o frame.data[r]]

NoFrame == [columns |-> <<>>, index |-> <<>>, data |-> <<>>]

\* slices = _traverse_dimension('', obs); df = pd.concat(...); df.to_csv(...)
\* pd.concat raises ValueError("No objects to concatenate") on an empty list
write_agent_obs_to_csv(o) ==
    LET ss == traverse_dimension(<<>>, o)
    IN  IF ss = <<>> THEN [ok |-> FALSE, csv |-> <<>>]
        ELSE [ok |-> TRUE, csv |-> ToCsv(Concat(ss))]

----------------------------------------------------------------------------
(* Flattener specification: tensors of bounded shape, cells numbered by    *)
(* their row-major position                                                *)

\* size of the index grid of a shape, an empty axis counted as one entry
RECURSIVE Volume(_)
Volume(s) == IF s = <<>> THEN 1 ELSE Max2(Head(s), 1) * Volume(Tail(s))

Shapes ==
    UNION {{s \in [1..r -> 0..MaxDim] : Volume(s) <= MaxElems} : r \in 2..MaxRank}

Arange(s) == [shape |-> s, buf |-> [i \in 1..Prod(s) |-> i - 1]]

NoTensor == [shape |-> <<>>, buf |-> <<>>]

FlattenIdle ==
    /\ fpc = "idle"
    /\ obs = NoTensor
    /\ slices = <<>>
    /\ df = NoFrame

ProgramIdle ==
    /\ pc = "idle"
    /\ config = [entry |-> "none"]
    /\ store = <<>>
    /\ files = <<>>
    /\ conns = <<>>
    /\ stdout = <<>>
    /\ error = "none"
    /\ sample = <<>>
    /\ agents = <<>>
    /\ written = <<>>
    /\ calls = 0

InitFlatten ==
    /\ fpc = "input"
    /\ obs \in {Arange(s) : s \in Shapes}
    /\ slices = <<>>
    /\ df = NoFrame
    /\ ProgramIdle

\* write_agent_obs_to_csv, line 45
Traverse ==
    /\ fpc = "input"
    /\ slices' = traverse_dimension(<<>>, obs)
    /\ fpc' = "flattened"
    /\ UNCHANGED <<obs, df>>
    /\ UNCHANGED pvars

\* write_agent_obs_to_csv, line 46
ConcatSlices ==
    /\ fpc = "flattened"
    /\ slices # <<>>
    /\ df' = Concat(slices)
    /\ fpc' = "concatenated"
    /\ UNCHANGED <<obs, slices>>
    /\ UNCHANGED pvars

\* write_agent_obs_to_csv, line 46, with nothing to concatenate
ConcatFails ==
    /\ fpc = "flattened"
    /\ slices = <<>>
    /\ fpc' = "failed"
    /\ UNCHANGED <<obs, slices, df>>
    /\ UNCHANGED pvars

NextFlatten == Traverse \/ ConcatSlices \/ ConcatFails

SpecFlatten == InitFlatten /\ [][NextFlatten]_vars

----------------------------------------------------------------------------
(* The observations table and the queries the program runs on it *)

Episodes == {0, 1}
Steps == {0, 1}
AgentIds == {1, 2}
MaxRecords == 3
MaxCorrupt == 1
MaxObs == 4
MaxCalls == 2

Keys == Episodes \X Steps \X AgentIds

\* a record's tensor: distinct cell values for every (episode, step, agent)
RecordShape == <<2, 1, 2>>

RecordBuf(key, n) ==
    [i \in 1..n |-> 1000 * key[1] + 100 * key[2] + 10 * key[3] + i]

\* the shape column is a pickle, the obs column a zlib stream; a blob that
\* does not decode has ok = FALSE
Kinds == {"ok", "badshape", "badzlib", "mismatch"}

Row(key, kind) ==
    [episode |-> key[1], step |-> key[2], agent |-> key[3],
     shape |-> [ok |-> kind # "badshape", value |-> RecordShape],
     obs   |-> [ok |-> kind # "badzlib",
                value |-> RecordBuf(key, IF kind = "mismatch"
                                         THEN Prod(RecordShape) - 1
                                         ELSE Prod(RecordShape))]]

Stores ==
    UNION {{{Row(k, f[k]) : k \in K} :
               f \in {g \in [K -> Kinds] :
                         Cardinality({k \in K : g[k] # "ok"}) <= MaxCorrupt}} :
              K \in {K \in SUBSET Keys : Cardinality(K) <= MaxRecords}}

\* GROUP BY episode, step
Groups(rows) == {<<r.episode, r.step>> : r \in rows}

\* ORDER BY episode, step
PairBeforeStepFirst(p, q) == p[2] < q[2] \/ (p[2] = q[2] /\ p[1] < q[1])

PairBefore(p, q) == p[1] < q[1] \/ (p[1] = q[1] /\ p[2] < q[2])

RECURSIVE OrderBy(_)
OrderBy(ps) ==
    IF ps = {} THEN <<>>
    ELSE LET first == CHOOSE p \in ps : \A q \in ps \ {p} : PairBefore(p, q)
         IN  <<first>> \o OrderBy(ps \ {first})

\* LIMIT 1 OFFSET n, then fetchone(): SQLite reads a negative OFFSET as 0;
\* the result is <<row>>, or <<>> for None
LimitOneOffsetClamped(ordered, n) ==
    IF ordered = <<>> THEN <<>>
    ELSE <<ordered[Min2(Max2(n, 0), Len(ordered) - 1) + 1]>>

LimitOneOffset(ordered, n) ==
    LET off == IF n < 0 THEN 0 ELSE n
    IN  IF off < Len(ordered) THEN <<ordered[off + 1]>> ELSE <<>>

\* SELECT COUNT(*) FROM (SELECT ROWID FROM observations GROUP BY episode, step)
get_obs_count(rows) == Cardinality(Groups(rows))

\* SELECT episode, step ... GROUP BY episode, step ORDER BY episode, step
\* LIMIT 1 OFFSET obs_num - 1
SelectSample(rows, obs_num) ==
    LimitOneOffset(OrderBy(Groups(rows)), obs_num - 1)

\* SELECT agent FROM observations WHERE episode = ? AND step = ?
SampleAgents(rows, episode, step) ==
    {r.agent : r \in {x \in rows : x.episode = episode /\ x.step = step}}

\* the rows come back in the order the store yields them, which no clause fixes
Orderings(S) ==
    {q \in [1..Cardinality(S) -> S] : \A i, j \in 1..Cardinality(S) : q[i] = q[j] => i = j}

\* SELECT shape, obs ... WHERE episode = ? AND step = ? AND agent = ?; fetchone()
SelectRecordAnySample(rows, episode, step, agent) ==
    CHOOSE r \in rows : r.agent = agent

SelectRecord(rows, episode, step, agent) ==
    CHOOSE r \in rows : r.episode = episode /\ r.step = step /\ r.agent = agent

\* pickle.loads(shape); np.frombuffer(zlib.decompress(obs)); obs.reshape(shape)
LoadTensorNoReshapeCheck(rec) ==
    IF ~rec.shape.ok THEN [ok |-> FALSE, error |-> "UnpicklingError", tensor |-> NoTensor]
    ELSE IF ~rec.obs.ok THEN [ok |-> FALSE, error |-> "zlib.error", tensor |-> NoTensor]
    ELSE [ok |-> TRUE, error |-> "none",
          tensor |-> [shape |-> <<Len(rec.obs.value), 1>>, buf |-> rec.obs.value]]

LoadTensor(rec) ==
    IF ~rec.shape.ok THEN [ok |-> FALSE, error |-> "UnpicklingError", tensor |-> NoTensor]
    ELSE IF ~rec.obs.ok THEN [ok |-> FALSE, error |-> "zlib.error", tensor |-> NoTensor]
    ELSE IF Len(rec.obs.value) # Prod(rec.shape.value)
         THEN [ok |-> FALSE, error |-> "ValueError", tensor |-> NoTensor]
    ELSE [ok |-> TRUE, error |-> "none",
          tensor |-> [shape |-> rec.shape.value, buf |-> rec.obs.value]]

----------------------------------------------------------------------------
(* Destination directory *)

\* dir_path.joinpath("agent_{}.csv".format(agent_id))
AgentFile(agent_id) ==
    <<"a", "g", "e", "n", "t", "_">> \o FormatInt(agent_id) \o <<".", "c", "s", "v">>

FileNames == {AgentFile(a) : a \in AgentIds}

Absent == [exists |-> FALSE, data |-> <<>>]

OldFile == [exists |-> TRUE, data |-> << <<"old">> >>]

FileOf(csv) == [exists |-> TRUE, data |-> csv]

\* the destination directory before the run: the first agent's file is there
\* from an earlier export, the others are not
InitialFiles == [f \in FileNames |-> IF f = AgentFile(1) THEN OldFile ELSE Absent]

\* to_csv that raises OSError: the file was not opened, or it was opened
\* (truncated) and holds only the lines written before the failure
AfterFailedWrite(old, csv) ==
    {old} \cup {FileOf(SubSeq(csv, 1, n)) : n \in 0..(Len(csv) - 1)}

----------------------------------------------------------------------------
(* Connections: "with sql.connect(...) as conn" commits or rolls back when  *)
(* the block is left and does not call conn.close(); the handle is closed  *)
(* only if the interpreter finalizes the unreferenced object               *)

NoConns == [get_obs_count |-> "none", export_observation_csv |-> "none"]

AfterWith == {"open", "closed"}

----------------------------------------------------------------------------
(* Arguments *)

None == <<>>

Some(v) == <<v>>

\* bool(config.observation), bool(config.destination)
Truthy(opt) == opt # None /\ opt # Some(0)

Observations == {None} \cup {Some(n) : n \in (0 - 1)..MaxObs}

Args(entry, n, e, o, d, f) ==
    [entry |-> entry, num_observations |-> n, export |-> e,
     observation |-> o, destination |-> d, obs_file_exists |-> f]

\* command lines that reach router
CountArgs == {Args("__main__", TRUE, FALSE, None, None, TRUE)}

ExportArgs ==
    {Args("__main__", FALSE, TRUE, o, Some(1), TRUE) : o \in {x \in Observations : Truthy(x)}}

\* command lines that argparse or the file check turns down
RejectedArgs ==
    {Args("__main__", n, n, None, None, TRUE) : n \in BOOLEAN} \cup
    {Args("__main__", FALSE, TRUE, o, Some(1), TRUE) : o \in {None, Some(0)}} \cup
    {Args("__main__", FALSE, TRUE, Some(1), None, TRUE)} \cup
    {Args("__main__", n, ~n, Some(1), Some(1), FALSE) : n \in BOOLEAN}

\* export_observation_csv(db_file_path, dest_path, obs_num) called as a function
DirectCalls ==
    {Args("export_observation_csv", FALSE, TRUE, Some(n), Some(1), TRUE) :
        n \in (0 - 1)..MaxObs}

Rejected(c) ==
    \/ c.num_observations = c.export
    \/ c.export /\ ~Truthy(c.observation)
    \/ c.export /\ ~Truthy(c.destination)
    \/ ~c.obs_file_exists

obs_num == config.observation[1]

Init ==
    /\ FlattenIdle
    /\ config \in CountArgs \cup ExportArgs \cup RejectedArgs \cup DirectCalls
    /\ store \in IF config.entry = "__main__" /\ Rejected(config) THEN {{}} ELSE Stores
    /\ files = InitialFiles
    /\ pc = IF config.entry = "__main__" THEN "main" ELSE "export"
    /\ conns = NoConns
    /\ stdout = <<>>
    /\ error = "none"
    /\ sample = <<>>
    /\ agents = <<>>
    /\ written = <<>>
    /\ calls = 1

----------------------------------------------------------------------------
(* __main__ *)

\* the mutually exclusive required group, parser.error(...), the is_file check
MainRejects ==
    /\ pc = "main"
    /\ Rejected(config)
    /\ pc' = "failed"
    /\ error' = IF config.num_observations = config.export THEN "SystemExit"
                ELSE IF config.export /\ ~Truthy(config.observation) THEN "SystemExit"
                ELSE IF config.export /\ ~Truthy(config.destination) THEN "SystemExit"
                ELSE "FileNotFoundError"
    /\ UNCHANGED <<config, store, files, conns, stdout, sample, agents, written, calls>>
    /\ UNCHANGED fvars

MainRoutes ==
    /\ pc = "main"
    /\ ~Rejected(config)
    /\ pc' = "router"
    /\ UNCHANGED <<config, store, files, conns, stdout, error, sample, agents, written, calls>>
    /\ UNCHANGED fvars

----------------------------------------------------------------------------
(* router *)

\* if config.num_observations: print(get_obs_count(db_file_path))
RouterPrintCount ==
    /\ pc = "router"
    /\ config.num_observations
    /\ stdout' = Append(stdout, get_obs_count(store))
    /\ \E c \in AfterWith : conns' = [conns EXCEPT !.get_obs_count = c]
    /\ pc' = "router_mode"
    /\ UNCHANGED <<config, store, files, error, sample, agents, written, calls>>
    /\ UNCHANGED fvars

RouterNoCount ==
    /\ pc = "router"
    /\ ~config.num_observations
    /\ pc' = "router_mode"
    /\ UNCHANGED <<config, store, files, conns, stdout, error, sample, agents, written, calls>>
    /\ UNCHANGED fvars

\* if config.export: mkdir(parents=True, exist_ok=True); export_observation_csv(...)
RouterExport ==
    /\ pc = "router_mode"
    /\ config.export
    /\ pc' = "export"
    /\ UNCHANGED <<config, store, files, conns, stdout, error, sample, agents, written, calls>>
    /\ UNCHANGED fvars

\* else: raise RuntimeError('No selected execution mode')
RouterNoMode ==
    /\ pc = "router_mode"
    /\ ~config.export
    /\ error' = "RuntimeError"
    /\ pc' = "failed"
    /\ UNCHANGED <<config, store, files, conns, stdout, sample, agents, written, calls>>
    /\ UNCHANGED fvars

----------------------------------------------------------------------------
(* export_observation_csv *)

\* if obs_num < 0: raise ValueError
ExportRejectsIndex ==
    /\ pc = "export"
    /\ obs_num < 0
    /\ error' = "ValueError"
    /\ pc' = "failed"
    /\ UNCHANGED <<config, store, files, conns, stdout, sample, agents, written, calls>>
    /\ UNCHANGED fvars

\* connect, select the sample, row = fetchone(), select its agents
ExportResolves ==
    /\ pc = "export"
    /\ ~(obs_num < 0)
    /\ SelectSample(store, obs_num) # <<>>
    /\ LET row == SelectSample(store, obs_num)[1]
       IN  /\ sample' = row
           /\ agents' \in Orderings(SampleAgents(store, row[1], row[2]))
    /\ conns' = [conns EXCEPT !.export_observation_csv = "open"]
    /\ pc' = "agents"
    /\ UNCHANGED <<config, store, files, stdout, error, written, calls>>
    /\ UNCHANGED fvars

\* row is None: row['episode'] raises TypeError and the with block is left
ExportNoRow ==
    /\ pc = "export"
    /\ ~(obs_num < 0)
    /\ SelectSample(store, obs_num) = <<>>
    /\ error' = "TypeError"
    /\ \E c \in AfterWith : conns' = [conns EXCEPT !.export_observation_csv = c]
    /\ pc' = "failed"
    /\ UNCHANGED <<config, store, files, stdout, sample, agents, written, calls>>
    /\ UNCHANGED fvars

\* one iteration of "for agent in agents" that loads the tensor and writes the file
ExportAgentWrites ==
    /\ pc = "agents"
    /\ agents # <<>>
    /\ LET agent  == Head(agents)
           loaded == LoadTensor(SelectRecord(store, sample[1], sample[2], agent))
           out    == write_agent_obs_to_csv(loaded.tensor)
       IN  /\ loaded.ok
           /\ out.ok
           /\ files' = [files EXCEPT ![AgentFile(agent)] = FileOf(out.csv)]
           /\ written' = Append(written, agent)
    /\ agents' = Tail(agents)
    /\ UNCHANGED <<pc, config, store, conns, stdout, error, sample, calls>>
    /\ UNCHANGED fvars

\* one iteration whose record does not load, or whose tensor yields no slice:
\* the exception leaves the loop and the with block
ExportAgentCorrupt ==
    /\ pc = "agents"
    /\ agents # <<>>
    /\ LET agent  == Head(agents)
           loaded == LoadTensor(SelectRecord(store, sample[1], sample[2], agent))
       IN  /\ IF loaded.ok THEN ~write_agent_obs_to_csv(loaded.tensor).ok ELSE TRUE
           /\ error' = IF loaded.ok THEN "ValueError" ELSE loaded.error
    /\ \E c \in AfterWith : conns' = [conns EXCEPT !.export_observation_csv = c]
    /\ pc' = "failed"
    /\ UNCHANGED <<config, store, files, stdout, sample, agents, written, calls>>
    /\ UNCHANGED fvars

\* one iteration whose df.to_csv raises OSError
ExportAgentWriteFails ==
    /\ pc = "agents"
    /\ agents # <<>>
    /\ LET agent  == Head(agents)
           loaded == LoadTensor(SelectRecord(store, sample[1], sample[2], agent))
           out    == write_agent_obs_to_csv(loaded.tensor)
       IN  /\ loaded.ok
           /\ out.ok
           /\ \E f \in AfterFailedWrite(files[AgentFile(agent)], out.csv) :
                 files' = [files EXCEPT ![AgentFile(agent)] = f]
    /\ error' = "OSError"
    /\ \E c \in AfterWith : conns' = [conns EXCEPT !.export_observation_csv = c]
    /\ pc' = "failed"
    /\ UNCHANGED <<config, store, stdout, sample, agents, written, calls>>
    /\ UNCHANGED fvars

\* the loop is exhausted: the with block is left and the function returns
ExportReturns ==
    /\ pc = "agents"
    /\ agents = <<>>
    /\ \E c \in AfterWith : conns' = [conns EXCEPT !.export_observation_csv = c]
    /\ pc' = "done"
    /\ UNCHANGED <<config, store, files, stdout, error, sample, agents, written, calls>>
    /\ UNCHANGED fvars

\* the same export is started again on the unchanged store: a new process for
\* the command line, another call for the function
Rerun ==
    /\ pc = "done"
    /\ calls < MaxCalls
    /\ calls' = calls + 1
    /\ pc' = IF config.entry = "__main__" THEN "main" ELSE "export"
    /\ conns' = IF config.entry = "__main__" THEN NoConns ELSE conns
    /\ sample' = <<>>
    /\ agents' = <<>>
    /\ written' = <<>>
    /\ UNCHANGED <<config, store, files, stdout, error>>
    /\ UNCHANGED fvars

Next ==
    \/ MainRejects
    \/ MainRoutes
    \/ RouterPrintCount
    \/ RouterNoCount
    \/ RouterExport
    \/ RouterNoMode
    \/ ExportRejectsIndex
    \/ ExportResolves
    \/ ExportNoRow
    \/ ExportAgentWrites
    \/ ExportAgentCorrupt
    \/ ExportAgentWriteFails
    \/ ExportReturns
    \/ Rerun

Spec == Init /\ [][Next]_vars

----------------------------------------------------------------------------
(* Reference definitions used to state the flattener's properties *)

LeadDims(shape) == SubSeq(shape, 1, Len(shape) - 2)

\* the k-th (0-based) index path over dims in lexicographic order
RECURSIVE PathOf(_, _)
PathOf(k, dims) ==
    IF dims = <<>> THEN <<>>
    ELSE LET rest == Prod(Tail(dims))
         IN  <<k \div rest>> \o PathOf(k % rest, Tail(dims))

\* i1_i2_..._in
RECURSIVE JoinUnderscore(_)
JoinUnderscore(path) ==
    IF Len(path) = 1 THEN FormatInt(path[1])
    ELSE FormatInt(Head(path)) \o <<"_">> \o JoinUnderscore(Tail(path))

\* row-major position (0-based) of the cell at idx in a tensor of that shape
RECURSIVE Offset(_, _)
Offset(idx, shape) ==
    IF idx = <<>> THEN 0
    ELSE Head(idx) * Prod(Tail(shape)) + Offset(Tail(idx), Tail(shape))

DigitVal(ch) == CHOOSE d \in 0..9 : Digits[d + 1] = ch

RECURSIVE SplitName(_, _)
SplitName(s, cur) ==
    IF s = <<>> THEN <<cur>>
    ELSE IF Head(s) = "_" THEN <<cur>> \o SplitName(Tail(s), <<>>)
    ELSE SplitName(Tail(s), Append(cur, Head(s)))

RECURSIVE ParseDigits(_, _)
ParseDigits(seg, acc) ==
    IF seg = <<>> THEN acc ELSE ParseDigits(Tail(seg), acc * 10 + DigitVal(Head(seg)))

\* the integers a column name spells, read back from its characters
ParseName(name) ==
    LET segs == SplitName(name, <<>>)
    IN  [k \in 1..Len(segs) |-> ParseDigits(segs[k], 0)]

Flattened == fpc \in {"flattened", "concatenated", "failed"}

NumColumns == obs.shape[Len(obs.shape)]

NumRows == obs.shape[Len(obs.shape) - 1]

\* the leading index path and column number the i-th column of the table stands for
ColumnOrigin(i) ==
    PathOf((i - 1) \div NumColumns, LeadDims(obs.shape)) \o <<(i - 1) % NumColumns>>

----------------------------------------------------------------------------
(* Properties of the flattener, checked under SpecFlatten *)

\* C5: for rank N > 2, _traverse_dimension('', obs) returns one slice per
\* combination of the N-2 leading indices, in lexicographic order of the index
\* paths; the slice of path [i1..ik] holds the cells obs[i1..ik, r, c] and its
\* columns are named i1_..._ik_c for c = 0..num_columns-1; for rank 2 there is
\* exactly one slice with columns 0..num_columns-1 and no prefix.
C5_SlicesInPathOrder ==
    Flattened =>
        LET lead == LeadDims(obs.shape)
        IN  /\ Len(slices) = Prod(lead)
            /\ \A k \in 1..Len(slices) :
                 LET path == PathOf(k - 1, lead)
                 IN  /\ slices[k].columns =
                          [c \in 1..NumColumns |-> JoinUnderscore(path \o <<c - 1>>)]
                     /\ slices[k].data =
                          [r \in 1..NumRows |-> [c \in 1..NumColumns |->
                              obs.buf[Offset(path \o <<r - 1, c - 1>>, obs.shape) + 1]]]
            /\ (Len(obs.shape) = 2 =>
                  /\ Len(slices) = 1
                  /\ slices[1].columns = [c \in 1..NumColumns |-> FormatInt(c - 1)])

\* the shape [2,2,3] example: two slices named 0_0,0_1,0_2 and 1_0,1_1,1_2
C5_Witness ==
    /\ fpc = "flattened"
    /\ obs.shape = <<2, 2, 3>>
    /\ Len(slices) = 2
    /\ slices[1].columns = << <<"0", "_", "0">>, <<"0", "_", "1">>, <<"0", "_", "2">> >>
    /\ slices[2].columns = << <<"1", "_", "0">>, <<"1", "_", "1">>, <<"1", "_", "2">> >>

\* C6 as stated: every slice has as many rows as the tensor's FIRST axis
C6_RowsEqualFirstAxis ==
    Flattened => \A k \in 1..Len(slices) : Len(slices[k].index) = obs.shape[1]

\* C6 amended: every slice has as many rows as the tensor's SECOND-TO-LAST axis
\* (the first axis only when the rank is 2), all slices agree on it, and the
\* concatenated table has exactly that many data rows.
C6_RowsEqualSecondToLastAxis ==
    /\ Flattened =>
         \A k \in 1..Len(slices) :
            /\ Len(slices[k].index) = NumRows
            /\ Len(slices[k].data) = NumRows
    /\ fpc = "concatenated" =>
         /\ Len(df.index) = NumRows
         /\ Len(ToCsv(df)) = NumRows + 1

C6_Witness ==
    /\ fpc = "concatenated"
    /\ Len(obs.shape) > 2
    /\ obs.shape[1] # NumRows
    /\ Len(slices) >= 2
    /\ Len(df.index) = NumRows

\* C9: in the concatenated table of a tensor with no empty axis no two columns
\* carry the same name, and a name read back gives the leading index path and
\* the column number of the column it labels.
C9_ColumnNamesInjective ==
    (fpc = "concatenated" /\ \A a \in 1..Len(obs.shape) : obs.shape[a] > 0) =>
        /\ Len(df.columns) = Prod(LeadDims(obs.shape)) * NumColumns
        /\ \A i, j \in 1..Len(df.columns) :
             df.columns[i] = df.columns[j] => i = j
        /\ \A i \in 1..Len(df.columns) :
             ParseName(df.columns[i]) = ColumnOrigin(i)

\* a table whose last column has a two-digit leading index
C9_Witness ==
    /\ fpc = "concatenated"
    /\ obs.shape = <<11, 1, 2>>
    /\ Len(df.columns) = 22
    /\ df.columns[22] = <<"1", "0", "_", "1">>
    /\ df.columns[3] = <<"1", "_", "0">>

----------------------------------------------------------------------------
(* Reference definitions used to state the program's properties *)

Terminal == pc \in {"done", "failed"}

\* the run gets as far as calling export_observation_csv
ExportRun ==
    /\ config.export
    /\ config.observation # None
    /\ config.entry = "__main__" => ~Rejected(config)

CountRun == config.entry = "__main__" /\ config.num_observations /\ ~Rejected(config)

DistinctPairs ==
    {p \in Episodes \X Steps : \E r \in store : r.episode = p[1] /\ r.step = p[2]}

LexBefore(p, q) == p[1] < q[1] \/ (p[1] = q[1] /\ p[2] < q[2])

RecordOf(p, a) ==
    CHOOSE r \in store : r.episode = p[1] /\ r.step = p[2] /\ r.agent = a

AgentsAt(p) == {a \in AgentIds : \E r \in store : <<r.episode, r.step, r.agent>> = <<p[1], p[2], a>>}

\* decompression fails, shape deserialization fails, or the element count
\* differs from the product of the shape
Corrupt(rec) ==
    \/ ~rec.shape.ok
    \/ ~rec.obs.ok
    \/ Len(rec.obs.value) # Prod(rec.shape.value)

CorruptErrors == {"UnpicklingError", "zlib.error", "ValueError"}

FileNameOf(a) ==
    <<"a", "g", "e", "n", "t", "_">> \o FormatInt(a) \o <<".", "c", "s", "v">>

\* the CSV of a well-formed record: a header of the column names after an
\* empty cell, then one line per row of the second-to-last axis
CsvOf(rec) ==
    LET shape == rec.shape.value
        n     == Len(shape)
        lead  == LeadDims(shape)
        ncols == Prod(lead) * shape[n]
        Origin(i) == PathOf((i - 1) \div shape[n], lead) \o <<(i - 1) % shape[n]>>
    IN  << <<"">> \o [i \in 1..ncols |-> JoinUnderscore(Origin(i))] >> \o
        [r \in 1..shape[n - 1] |->
            <<r - 1>> \o [i \in 1..ncols |->
                rec.obs.value[Offset(PathOf((i - 1) \div shape[n], lead)
                                       \o <<r - 1, (i - 1) % shape[n]>>, shape) + 1]]]

SeqToSet(q) == {q[i] : i \in 1..Len(q)}

----------------------------------------------------------------------------
(* Properties of the program, checked under Spec *)

\* C1: export_observation_csv entered with an index smaller than 1 fails with
\* the range error (ValueError) in its first step, resolving no sample and
\* writing no file.
C1_IndexBelowOneRejected ==
    [][(pc = "export" /\ obs_num < 1) =>
          /\ pc' = "failed"
          /\ error' = "ValueError"
          /\ sample' = <<>>
          /\ files' = files]_vars

\* C2: in count mode the count is printed and the run then ends successfully:
\* no error after the count is on stdout, no file written.
C2_CountModeSucceeds ==
    CountRun =>
        /\ stdout # <<>> => (error = "none" /\ pc # "failed")
        /\ Terminal => (pc = "done" /\ stdout = <<Cardinality(DistinctPairs)>>)
        /\ files = InitialFiles

\* C3: with an index greater than the number of distinct (episode, step)
\* pairs the export resolves no sample, never completes, ends in an error, and
\* no agent file is created or overwritten.
C3_OutOfRangeFails ==
    (ExportRun /\ obs_num > Cardinality(DistinctPairs)) =>
        /\ pc \notin {"agents", "done"}
        /\ sample = <<>>
        /\ written = <<>>
        /\ files = InitialFiles
        /\ pc = "failed" => error = "TypeError"
        /\ calls = 1

C3_Witness ==
    /\ pc = "failed"
    /\ error = "TypeError"
    /\ Cardinality(DistinctPairs) = 2
    /\ Cardinality(store) = 3
    /\ obs_num = 3
    /\ files = InitialFiles

\* C4: get_obs_count is the number of distinct (episode, step) pairs, and for
\* an index in [1, count] the sample the export resolves is the pair that has
\* exactly index-1 pairs before it in (episode, step) order.
C4_SampleIsIndexedPair ==
    /\ get_obs_count(store) = Cardinality(DistinctPairs)
    /\ stdout # <<>> => stdout = <<Cardinality(DistinctPairs)>>
    /\ (/\ ExportRun
        /\ obs_num >= 1
        /\ obs_num <= get_obs_count(store)
        /\ pc \in {"agents", "done", "failed"}) =>
           /\ sample \in DistinctPairs
           /\ Cardinality({p \in DistinctPairs : LexBefore(p, sample)}) = obs_num - 1

\* index 2 of 2 is (1, 0) although (0, 1) has two agent records
C4_Witness ==
    /\ pc = "agents"
    /\ DistinctPairs = {<<0, 1>>, <<1, 0>>}
    /\ AgentsAt(<<0, 1>>) = {1, 2}
    /\ obs_num = 2
    /\ sample = <<1, 0>>

\* C7: an export that meets a corrupt record aborts at it: no corrupt record's
\* agent is ever written, the run does not complete, the file of the corrupt
\* agent and of every agent after it in the enumeration is as before the call,
\* and the files written for the agents before it stay as written.
C7_CorruptAgentAborts ==
    (sample # <<>> /\ calls = 1) =>
        /\ \A i \in 1..Len(written) : ~Corrupt(RecordOf(sample, written[i]))
        /\ (\E a \in AgentsAt(sample) : Corrupt(RecordOf(sample, a))) => pc # "done"
        /\ (agents # <<>> /\ Corrupt(RecordOf(sample, Head(agents)))) =>
              \A j \in 1..Len(agents) :
                 files[FileNameOf(agents[j])] = InitialFiles[FileNameOf(agents[j])]
        /\ (pc = "failed" /\ error \in CorruptErrors) =>
              /\ agents # <<>>
              /\ Corrupt(RecordOf(sample, Head(agents)))
              /\ \A i \in 1..Len(written) :
                    files[FileNameOf(written[i])] =
                       [exists |-> TRUE, data |-> CsvOf(RecordOf(sample, written[i]))]

\* the second agent's buffer does not match its shape; the first agent's file
\* is on disk, the second agent's file was never created
C7_Witness ==
    /\ pc = "failed"
    /\ error = "ValueError"
    /\ sample # <<>>
    /\ written = <<1>>
    /\ agents = <<2>>
    /\ files[FileNameOf(1)].data = CsvOf(RecordOf(sample, 1))
    /\ files[FileNameOf(2)] = Absent

\* C8: once get_obs_count or export_observation_csv has ended, normally or by
\* an error, the connection it opened is closed.
C8_ConnectionsClosed ==
    /\ pc \in {"router_mode", "export", "agents", "done", "failed"} =>
          conns.get_obs_count # "open"
    /\ Terminal => conns.export_observation_csv # "open"

\* C10: after an export with a valid index has completed, the files written
\* during the call are exactly the agent_<a>.csv of the agents with a record in
\* the resolved sample, each holding the CSV of that agent's tensor of that
\* sample whatever was there before, every other file is as it was; the same
\* holds after the export is repeated, so the contents are identical.
C10_FilesOfSample ==
    (pc = "done" /\ obs_num >= 1) =>
        /\ SeqToSet(written) = AgentsAt(sample)
        /\ Len(written) = Cardinality(AgentsAt(sample))
        /\ \A a \in AgentsAt(sample) :
              files[FileNameOf(a)] = [exists |-> TRUE, data |-> CsvOf(RecordOf(sample, a))]
        /\ \A a \in AgentIds \ AgentsAt(sample) :
              files[FileNameOf(a)] = InitialFiles[FileNameOf(a)]

\* the export of a sample that only agent 2 takes part in, run twice: agent 1,
\* who has a record in another sample, keeps the old file
C10_Witness ==
    /\ pc = "done"
    /\ calls = 2
    /\ obs_num >= 1
    /\ written = <<2>>
    /\ \E r \in store : r.agent = 1
    /\ files[FileNameOf(1)] = OldFile
    /\ files[FileNameOf(2)].data = CsvOf(RecordOf(sample, 2))

====
